---- MODULE Spec2Model ----
(***************************************************************************)
(* The JNI bridge of expo-whisper between the host and the whisper.cpp     *)
(* engine: the two Android bindings                                        *)
(*   cpp/whisper-jni.cpp  (initContext, freeContext, fullTranscribe)       *)
(*   jni/whisper_jni.cpp  (nativeInitContext, nativeFreeContext,           *)
(*                         nativeTranscribe, nativeDetectLanguageWithState,*)
(*                         nativeStartChunkedRealtimeTranscribeWithState)  *)
(* Host threads call the bridge; every engine call of a handler is a step, *)
(* so calls of different threads interleave between engine calls.          *)
(* A context handle is the context's address: the bridge tests it against  *)
(* null only.  An engine call on a context that was freed is undefined     *)
(* behaviour: the model lets it produce any result the engine can return,  *)
(* or end the process (crashed).                                           *)
(***************************************************************************)
EXTENDS Integers, Sequences, FiniteSets, TLC

\* ------------------------------------------------------------------ bounds
MaxCalls == 3      \* bridge calls the host makes in one run
MaxCtx == 2        \* contexts the engine opens in one run
NumThreads == 2    \* host threads inside bridge calls at the same time
MaxPayload == 3    \* payload bytes after the WAV header in the decode inputs
MaxTokenArg == 3   \* largest small maxTokens argument in the parameter inputs

Threads == 1..NumThreads
CtxIds == 1..MaxCtx
StateIds == 1..NumThreads   \* each call holds at most one engine state

\* --------------------------------------------------------- program constants
WavHeaderLen == 44      \* whisper-jni.cpp:64,70,72
PcmScale == 32768       \* whisper-jni.cpp:75
NullHandle == 0         \* return 0 / if (!ctx)

\* ------------------------------------------------------------ WAV decoding
\* jbyte is a signed 8-bit value; the buffer is read back as int16_t in the
\* byte order of the build (little-endian on every Android ABI).
U8(b) == b % 256
S16(u) == IF u >= 32768 THEN u - 65536 ELSE u
\* pcm16[i] with pcm16 = (const int16_t *)(bytes + 44); Sequences are 1-based.
Pcm16At_BigEndian(bytes, i) ==
    S16(256 * U8(bytes[WavHeaderLen + 2 * i + 1]) + U8(bytes[WavHeaderLen + 2 * i + 2]))
Pcm16At(bytes, i) ==
    S16(U8(bytes[WavHeaderLen + 2 * i + 1]) + 256 * U8(bytes[WavHeaderLen + 2 * i + 2]))
\* int pcmLen = (len - 44) / 2;   (len >= 44 here, so / is \div)
PcmLen(len) == (len - WavHeaderLen) \div 2
\* (float)pcm16[i] / 32768.0f is exact in binary32: the sample is the
\* rational num/den, kept as a pair.
ToFloat(v) == [num |-> v, den |-> PcmScale]
\* the loop of lines 74-76 over the whole buffer
WavDecode(bytes) ==
    [i \in 1..PcmLen(Len(bytes)) |-> ToFloat(Pcm16At(bytes, i - 1))]
\* if (len < 44)
WavTooShort_OffByOne(len) == len < WavHeaderLen - 1
WavTooShort(len) == len < WavHeaderLen

\* ------------------------------------------------------------------ inputs
\* Byte buffers the host passes to fullTranscribe: a header of 44 bytes
\* (never read by the bridge) and a payload.
Header == [i \in 1..WavHeaderLen |-> i]
WavCallInputs ==
    { SubSeq(Header, 1, WavHeaderLen - 1),      \* 43 bytes: too short
      Header,                                   \* 44 bytes: no sample
      Header \o <<1>>,                          \* odd payload, 0 samples
      Header \o <<0, -128>>,                    \* one sample, -32768
      Header \o <<-1, 127, 5>> }                \* odd payload, 1 sample
\* Float arrays the host passes to nativeTranscribe / nativeDetectLanguage.
FloatCallInputs == { <<>>, <<ToFloat(0), ToFloat(16384)>> }
\* A null jstring.
NoLang == "<null>"
\* (language, translate, maxTokens, suppressBlank, suppressNst) of a call
ParamInputs ==
    { [lang |-> "auto", translate |-> FALSE, maxTokens |-> 0,
       suppressBlank |-> FALSE, suppressNst |-> FALSE],
      [lang |-> "de", translate |-> TRUE, maxTokens |-> 5,
       suppressBlank |-> TRUE, suppressNst |-> TRUE],
      [lang |-> "xx", translate |-> FALSE, maxTokens |-> -1,
       suppressBlank |-> FALSE, suppressNst |-> TRUE] }
NullLangInput ==
    [lang |-> NoLang, translate |-> FALSE, maxTokens |-> 0,
     suppressBlank |-> FALSE, suppressNst |-> FALSE]
\* the streaming call's own arguments
StreamInputs ==
    { [samplesPerChunk |-> 16000, useVad |-> FALSE, audioContext |-> 512,
       singleSegment |-> TRUE, noContext |-> FALSE, nThreads |-> 4] }
ThreadCounts == {1, 4}

\* ------------------------------------------------- the engine, as it answers
\* whisper_lang_str / whisper_lang_id: the engine's language table (ids from 0)
LangTable == <<"en", "zh", "de">>
LangNames == <<"english", "chinese", "german">>
NoString == "<nullptr>"
whisper_lang_str(id) ==
    IF id >= 0 /\ id < Len(LangTable) THEN LangTable[id + 1] ELSE NoString
whisper_lang_str_full(id) ==
    IF id >= 0 /\ id < Len(LangNames) THEN LangNames[id + 1] ELSE NoString
whisper_lang_id(lang) ==
    IF \E i \in 1..Len(LangTable) : LangTable[i] = lang
    THEN (CHOOSE i \in 1..Len(LangTable) : LangTable[i] = lang) - 1
    ELSE -1
\* what whisper_lang_auto_detect_with_state may return
DetectIds == {-1, 0, 2, 7}
\* what whisper_full / whisper_pcm_to_mel_with_state may return
StatusCodes == {0, -2}
\* the segments a successful whisper_full may leave in the context; a text is
\* its sequence of characters
Seg(text, t0, t1) == [text |-> text, t0 |-> t0, t1 |-> t1]
SegOutputs ==
    { <<>>,
      <<Seg(<<"h", "i">>, 0, 120)>>,
      <<Seg(<<"j", "a">>, 0, 80), Seg(<<>>, 80, 80), Seg(<<"!">>, 80, 150)>> }
\* whisper_full_default_params(WHISPER_SAMPLING_GREEDY), the fields the bridge
\* sets or leaves
DefaultParams ==
    [max_tokens |-> 0, translate |-> FALSE, language |-> <<"str", "en">>,
     n_threads |-> 4, single_segment |-> FALSE, no_context |-> TRUE,
     audio_ctx |-> 0, token_timestamps |-> FALSE,
     suppress_blank |-> TRUE, suppress_nst |-> FALSE,
     print_progress |-> TRUE, print_realtime |-> FALSE,
     print_timestamps |-> TRUE, print_special |-> FALSE]

\* ------------------------------------------------------------------- state
VARIABLES
    ctxStatus,    \* context id -> "unalloc" | "live" | "freed"
    closeCount,   \* context id -> whisper_free calls made on it
    ctxSegs,      \* context id -> segments of the last whisper_full on it
    handles,      \* the handle values initContext has returned to the host
    stStatus,     \* state id -> "unalloc" | "live" | "freed"
    stParent,     \* state id -> the context it was created from (0: none)
    stFreeCount,  \* state id -> whisper_state_free calls made on it
    th,           \* thread -> the bridge call it is in
    crashed,      \* the process was ended by undefined behaviour
    calls,        \* bridge calls the host has made so far
    dec,          \* the WAV decoder run on its own: [in, out, res]
    prm,          \* the parameter set-up of the three call sites run on its own
    freeSkips     \* freeContext calls that returned without whisper_free

vars == <<ctxStatus, closeCount, ctxSegs, handles, stStatus, stParent,
          stFreeCount, th, crashed, calls, dec, prm, freeSkips>>
engineVars == <<ctxStatus, closeCount, ctxSegs, handles, stStatus, stParent,
                stFreeCount>>

NoParams == <<>>
IdleCall ==
    [op |-> "none", pc |-> "idle", h |-> NullHandle, audio |-> <<>>,
     par |-> NullLangInput, st |-> 0, samples |-> <<>>, params |-> NoParams,
     res |-> "none", out |-> <<>>, stale |-> FALSE, ctxCalls |-> 0,
     runs |-> 0, status |-> 0,
     nThreads |-> 0, stream |-> <<>>,
     audioAcq |-> 0, audioRel |-> 0, langAcq |-> 0, langRel |-> 0]

NoDec == [in |-> <<>>, out |-> <<>>, res |-> "none"]
NoPrm == [in |-> NullLangInput, x |-> <<>>, full |-> NoParams,
          native |-> NoParams, start |-> NoParams]

Init ==
    /\ ctxStatus = [c \in CtxIds |-> "unalloc"]
    /\ closeCount = [c \in CtxIds |-> 0]
    /\ ctxSegs = [c \in CtxIds |-> <<>>]
    /\ handles = {}
    /\ stStatus = [s \in StateIds |-> "unalloc"]
    /\ stParent = [s \in StateIds |-> 0]
    /\ stFreeCount = [s \in StateIds |-> 0]
    /\ th = [t \in Threads |-> IdleCall]
    /\ crashed = FALSE
    /\ calls = 0
    /\ dec = NoDec
    /\ prm = NoPrm
    /\ freeSkips = 0

\* ------------------------------------------------------- context life cycle
\* whisper_init_from_file_with_params: a new context, or null
EngineOpen(ok) ==
    IF ok
    THEN LET c == CHOOSE x \in CtxIds : ctxStatus[x] = "unalloc" /\
                    \A y \in CtxIds : ctxStatus[y] = "unalloc" => x <= y
         IN /\ ctxStatus' = [ctxStatus EXCEPT ![c] = "live"]
            /\ handles' = handles \cup {c}
    ELSE /\ handles' = handles \cup {NullHandle}
         /\ UNCHANGED ctxStatus

\* whisper_free(ctx): on a context already freed this is a double free
EngineClose(c) ==
    /\ ctxStatus' = [ctxStatus EXCEPT ![c] = "freed"]
    /\ closeCount' = [closeCount EXCEPT ![c] = @ + 1]

\* if (ctx) whisper_free(ctx);
FreeBody(h) ==
    IF h # NullHandle
    THEN /\ EngineClose(h)
         /\ \/ crashed' = crashed
            \/ ctxStatus[h] = "freed" /\ crashed' = TRUE
         /\ UNCHANGED freeSkips
    ELSE /\ freeSkips' = freeSkips + 1
         /\ UNCHANGED <<ctxStatus, closeCount, crashed>>

\* the host makes one more bridge call
HostCall == ~crashed /\ calls < MaxCalls /\ calls' = calls + 1

\* cpp/whisper-jni.cpp: the engine's default context parameters
initContext ==
    /\ HostCall
    /\ \E ok \in BOOLEAN :
          /\ ok => \E c \in CtxIds : ctxStatus[c] = "unalloc"
          /\ EngineOpen(ok)
    /\ UNCHANGED <<closeCount, ctxSegs, stStatus, stParent, stFreeCount, th,
                   crashed, dec, prm, freeSkips>>

\* jni/whisper_jni.cpp: params.use_gpu, params.flash_attn from the caller
nativeInitContext ==
    /\ HostCall
    /\ \E useGpu \in BOOLEAN, useFlashAttn \in BOOLEAN, ok \in BOOLEAN :
          /\ ok => \E c \in CtxIds : ctxStatus[c] = "unalloc"
          /\ EngineOpen(ok)
    /\ UNCHANGED <<closeCount, ctxSegs, stStatus, stParent, stFreeCount, th,
                   crashed, dec, prm, freeSkips>>

\* cpp/whisper-jni.cpp, lines 33-40
freeContext ==
    /\ HostCall
    /\ \E h \in handles : FreeBody(h)
    /\ UNCHANGED <<ctxSegs, handles, stStatus, stParent, stFreeCount, th, dec, prm>>

\* jni/whisper_jni.cpp, lines 42-53
nativeFreeContext ==
    /\ HostCall
    /\ \E h \in handles : FreeBody(h)
    /\ UNCHANGED <<ctxSegs, handles, stStatus, stParent, stFreeCount, th, dec, prm>>

\* ------------------------------------------------------------ call helpers
\* Host threads are interchangeable: a new call is placed on the first thread
\* that is in no call.
Idle(t) ==
    /\ HostCall
    /\ th[t].pc = "idle"
    /\ \A u \in Threads : u < t => th[u].pc # "idle"
At(t, op, pc) == ~crashed /\ th[t].op = op /\ th[t].pc = pc
Set(t, rec) == th' = [th EXCEPT ![t] = rec]
\* the handle names a context the engine has already freed
Dangling(h) == h # NullHandle /\ ctxStatus[h] = "freed"
\* a call entered: which function, on which handle
Enter(op, h) == [IdleCall EXCEPT !.op = op, !.h = h, !.stale = Dangling(h)]
\* Locals the function does not read again are dropped from the record.
AfterRun(rec) ==
    [rec EXCEPT !.audio = <<>>, !.samples = <<>>, !.par = NullLangInput,
                !.params = NoParams, !.nThreads = 0, !.stream = <<>>]
\* return from the native function
Done(rec, res) == [rec EXCEPT !.pc = "done", !.res = res]
\* the process dies inside an engine call on freed memory
Crash(t) ==
    /\ crashed' = TRUE
    /\ Set(t, [th[t] EXCEPT !.ctxCalls = @ + 1])

\* struct whisper_state *state = whisper_init_state(ctx): the new state's id
FreshState == CHOOSE s \in StateIds :
                 stStatus[s] = "unalloc" /\
                 \A y \in StateIds : stStatus[y] = "unalloc" => s <= y
EngineNewState(s, c) ==
    /\ stStatus' = [stStatus EXCEPT ![s] = "live"]
    /\ stParent' = [stParent EXCEPT ![s] = c]
    /\ stFreeCount' = [stFreeCount EXCEPT ![s] = 0]
\* whisper_state_free(state)
EngineFreeState(s) ==
    /\ stStatus' = [stStatus EXCEPT ![s] = "freed"]
    /\ stFreeCount' = [stFreeCount EXCEPT ![s] = @ + 1]
    /\ UNCHANGED stParent
KeepStates == UNCHANGED <<stStatus, stParent, stFreeCount>>

\* -------------------------------------- cpp/whisper-jni.cpp: fullTranscribe
\* lines 80-97: the parameters handed to whisper_full
FullTranscribeParams(p) ==
    LET a == [DefaultParams EXCEPT !.print_progress = FALSE,
                                   !.print_realtime = FALSE,
                                   !.suppress_blank = p.suppressBlank,
                                   !.suppress_nst = p.suppressNst]
        b == IF p.maxTokens > 0 THEN [a EXCEPT !.max_tokens = p.maxTokens] ELSE a
        c == IF p.translate THEN [b EXCEPT !.translate = TRUE] ELSE b
    IN  IF p.lang # "auto"
        THEN [c EXCEPT !.language = <<"id", whisper_lang_id(p.lang)>>]
        ELSE c

\* lines 52-97: null test, the buffers, the WAV test, decoding, parameters
FullTranscribeEntry(h, a, p) ==
    LET e == [Enter("fullTranscribe", h) EXCEPT !.audio = a, !.par = p]
        got == [e EXCEPT !.langAcq = 1, !.audioAcq = 1]
    IN  IF h = NullHandle
        THEN Done(e, "{}")
        ELSE IF WavTooShort(Len(a))
        THEN Done([got EXCEPT !.audioRel = 1, !.langRel = 1],
                  "{\"error\":\"Invalid WAV\"}")
        ELSE [got EXCEPT !.samples = WavDecode(a), !.audioRel = 1,
                         !.params = FullTranscribeParams(p), !.pc = "run"]

FullTranscribeBegin(t) ==
    /\ Idle(t)
    /\ \E h \in handles, a \in WavCallInputs, p \in ParamInputs :
          Set(t, FullTranscribeEntry(h, a, p))
    /\ UNCHANGED <<engineVars, crashed, dec, prm, freeSkips>>

\* lines 99-104 with the failed run started again instead of returned
FullTranscribeRun_RetryOnFailure(t) ==
    /\ At(t, "fullTranscribe", "run")
    /\ LET c == th[t].h
           r == [th[t] EXCEPT !.ctxCalls = @ + 1, !.runs = @ + 1]
       IN  \/ /\ th[t].runs < 1
              /\ \E status \in StatusCodes \ {0} : Set(t, [r EXCEPT !.status = status])
              /\ ctxSegs' = [ctxSegs EXCEPT ![c] = <<>>]
           \/ /\ \E segs \in SegOutputs : ctxSegs' = [ctxSegs EXCEPT ![c] = segs]
              /\ Set(t, [AfterRun(r) EXCEPT !.pc = "read", !.status = 0,
                                            !.langRel = @ + 1])
    /\ UNCHANGED <<ctxStatus, closeCount, handles, stStatus, stParent,
                   stFreeCount, crashed, calls, dec, prm, freeSkips>>
\* lines 99-104: whisper_full(ctx, params, samples.data(), samples.size())
FullTranscribeRun(t) ==
    /\ At(t, "fullTranscribe", "run")
    /\ LET c == th[t].h
           r == [AfterRun(th[t]) EXCEPT !.ctxCalls = @ + 1, !.runs = @ + 1,
                                        !.langRel = @ + 1]
       IN  \/ /\ \E status \in StatusCodes \ {0} :
                    Set(t, Done([r EXCEPT !.status = status],
                                "{\"error\":\"Transformation failed\"}"))
              /\ ctxSegs' = [ctxSegs EXCEPT ![c] = <<>>]
              /\ UNCHANGED crashed
           \/ /\ \E segs \in SegOutputs : ctxSegs' = [ctxSegs EXCEPT ![c] = segs]
              /\ Set(t, [r EXCEPT !.pc = "read"])
              /\ UNCHANGED crashed
           \/ /\ Dangling(c)
              /\ Crash(t)
              /\ UNCHANGED ctxSegs
    /\ UNCHANGED <<ctxStatus, closeCount, handles, stStatus, stParent,
                   stFreeCount, calls, dec, prm, freeSkips>>

\* the concatenation of the segment texts, in index order
RECURSIVE ConcatTexts(_)
ConcatTexts(segs) ==
    IF segs = <<>> THEN <<>> ELSE Head(segs).text \o ConcatTexts(Tail(segs))

\* lines 106-131 with the segments of empty text left out of the array
FullTranscribeJson_DropEmpty(segs) ==
    LET kept == SelectSeq(segs, LAMBDA g : g.text # <<>>)
    IN  [text |-> ConcatTexts(segs),
         segments |-> [i \in 1..Len(kept) |->
                          [text |-> kept[i].text, t0 |-> kept[i].t0, t1 |-> kept[i].t1]]]
\* lines 106-131: the JSON document, as the values written into it
FullTranscribeJson(segs) ==
    [text |-> ConcatTexts(segs),
     segments |-> [i \in 1..Len(segs) |->
                      [text |-> segs[i].text, t0 |-> segs[i].t0, t1 |-> segs[i].t1]]]

\* lines 110-131: whisper_full_n_segments / whisper_full_get_segment_*
FullTranscribeRead(t) ==
    /\ At(t, "fullTranscribe", "read")
    /\ LET c == th[t].h
           r == [th[t] EXCEPT !.ctxCalls = @ + 1]
       IN  \/ /\ ~Dangling(c)
              /\ Set(t, Done([r EXCEPT !.out = FullTranscribeJson(ctxSegs[c])], "json"))
              /\ UNCHANGED crashed
           \/ /\ Dangling(c)
              /\ \E segs \in SegOutputs :
                    Set(t, Done([r EXCEPT !.out = FullTranscribeJson(segs)], "json"))
              /\ UNCHANGED crashed
           \/ /\ Dangling(c)
              /\ Crash(t)
    /\ UNCHANGED <<engineVars, calls, dec, prm, freeSkips>>

\* -------------------------------------- jni/whisper_jni.cpp: nativeTranscribe
\* lines 78-100: the parameters handed to whisper_full
NativeTranscribeParams(p) ==
    LET a == [DefaultParams EXCEPT !.print_realtime = FALSE,
                                   !.print_progress = FALSE,
                                   !.print_timestamps = FALSE,
                                   !.print_special = FALSE,
                                   !.translate = p.translate,
                                   !.n_threads = 4,
                                   !.single_segment = FALSE,
                                   !.token_timestamps = TRUE]
        b == IF p.maxTokens > 0 THEN [a EXCEPT !.max_tokens = p.maxTokens] ELSE a
    IN  IF p.lang # NoLang
        THEN [b EXCEPT !.language = <<"str", p.lang>>]
        ELSE [b EXCEPT !.language = <<"str", "auto">>]

\* lines 65-100: null test, the float array, parameters, the language string
NativeTranscribeEntry(h, a, p) ==
    LET e == [Enter("nativeTranscribe", h) EXCEPT !.audio = a, !.par = p]
    IN  IF h = NullHandle
        THEN Done(e, "nullptr")
        ELSE [e EXCEPT !.audioAcq = 1, !.samples = a,
                       !.params = NativeTranscribeParams(p),
                       !.langAcq = IF p.lang # NoLang THEN 1 ELSE 0,
                       !.pc = "run"]

NativeTranscribeBegin(t) ==
    /\ Idle(t)
    /\ \E h \in handles, a \in FloatCallInputs, p \in ParamInputs \cup {NullLangInput} :
          Set(t, NativeTranscribeEntry(h, a, p))
    /\ UNCHANGED <<engineVars, crashed, dec, prm, freeSkips>>

\* lines 103-110: whisper_full(ctx, params, samples, numSamples)
NativeTranscribeRun(t) ==
    /\ At(t, "nativeTranscribe", "run")
    /\ LET c == th[t].h
           r == [AfterRun(th[t]) EXCEPT !.ctxCalls = @ + 1, !.runs = @ + 1,
                                        !.audioRel = @ + 1]
       IN  \/ /\ \E status \in StatusCodes \ {0} :
                    Set(t, Done([r EXCEPT !.status = status], "nullptr"))
              /\ ctxSegs' = [ctxSegs EXCEPT ![c] = <<>>]
              /\ UNCHANGED crashed
           \/ /\ \E segs \in SegOutputs : ctxSegs' = [ctxSegs EXCEPT ![c] = segs]
              /\ Set(t, [r EXCEPT !.pc = "read"])
              /\ UNCHANGED crashed
           \/ /\ Dangling(c)
              /\ Crash(t)
              /\ UNCHANGED ctxSegs
    /\ UNCHANGED <<ctxStatus, closeCount, handles, stStatus, stParent,
                   stFreeCount, calls, dec, prm, freeSkips>>

\* lines 113-186: the result map {"result": fullText, "segments": [...]}
NativeTranscribeMap(segs) ==
    [result |-> ConcatTexts(segs),
     segments |-> [i \in 1..Len(segs) |->
                      [text |-> segs[i].text, t0 |-> segs[i].t0, t1 |-> segs[i].t1]]]

NativeTranscribeRead(t) ==
    /\ At(t, "nativeTranscribe", "read")
    /\ LET c == th[t].h
           r == [th[t] EXCEPT !.ctxCalls = @ + 1]
       IN  \/ /\ ~Dangling(c)
              /\ Set(t, Done([r EXCEPT !.out = NativeTranscribeMap(ctxSegs[c])], "map"))
              /\ UNCHANGED crashed
           \/ /\ Dangling(c)
              /\ \E segs \in SegOutputs :
                    Set(t, Done([r EXCEPT !.out = NativeTranscribeMap(segs)], "map"))
              /\ UNCHANGED crashed
           \/ /\ Dangling(c)
              /\ Crash(t)
    /\ UNCHANGED <<engineVars, calls, dec, prm, freeSkips>>

\* ------------------------ jni/whisper_jni.cpp: nativeDetectLanguageWithState
\* an exit of the function after the state was created (lines 223-225,
\* 233-235, 243-245, 294-297): whisper_state_free(state), the float array
\* released, the return
DetectExit_LeakOnUnknownId(t, rec, res) ==
    IF res = "nullptr" /\ rec.pc = "detect" /\ rec.status >= 0
    THEN /\ Set(t, Done([rec EXCEPT !.audioRel = @ + 1], res))
         /\ KeepStates
    ELSE /\ Set(t, Done([rec EXCEPT !.audioRel = @ + 1], res))
         /\ EngineFreeState(rec.st)
DetectExit(t, rec, res) ==
    /\ Set(t, Done([rec EXCEPT !.audioRel = @ + 1], res))
    /\ EngineFreeState(rec.st)

\* lines 197-216: null test, the float array, whisper_init_state(ctx)
NativeDetectBegin(t) ==
    /\ Idle(t)
    /\ \E h \in handles, a \in FloatCallInputs, n \in ThreadCounts :
          LET e == [Enter("nativeDetectLanguageWithState", h)
                       EXCEPT !.audio = a, !.nThreads = n]
              g == [e EXCEPT !.audioAcq = 1, !.samples = a, !.ctxCalls = 1]
          IN  IF h = NullHandle
              THEN Set(t, Done(e, "nullptr")) /\ KeepStates /\ UNCHANGED crashed
              ELSE \/ /\ Set(t, Done([g EXCEPT !.audioRel = 1], "nullptr"))
                      /\ KeepStates /\ UNCHANGED crashed
                   \/ /\ \E s \in StateIds : stStatus[s] = "unalloc"
                      /\ EngineNewState(FreshState, h)
                      /\ Set(t, [g EXCEPT !.st = FreshState, !.pc = "mel"])
                      /\ UNCHANGED crashed
                   \/ /\ Dangling(h)
                      /\ crashed' = TRUE
                      /\ Set(t, [g EXCEPT !.pc = "init"])
                      /\ KeepStates
    /\ UNCHANGED <<ctxStatus, closeCount, ctxSegs, handles, dec, prm, freeSkips>>

\* lines 220-226 with the status of the conversion not tested
NativeDetectMel_IgnoreStatus(t) ==
    /\ At(t, "nativeDetectLanguageWithState", "mel")
    /\ LET r == [th[t] EXCEPT !.ctxCalls = @ + 1, !.audio = <<>>, !.samples = <<>>]
       IN  \E status \in StatusCodes : Set(t, [r EXCEPT !.status = status, !.pc = "detect"])
    /\ UNCHANGED <<engineVars, crashed, calls, dec, prm, freeSkips>>
\* lines 220-226: whisper_pcm_to_mel_with_state(ctx, state, samples, n, 0)
NativeDetectMel(t) ==
    /\ At(t, "nativeDetectLanguageWithState", "mel")
    /\ LET c == th[t].h
           r == [th[t] EXCEPT !.ctxCalls = @ + 1, !.audio = <<>>, !.samples = <<>>]
       IN  \/ /\ \E status \in StatusCodes \ {0} :
                    DetectExit(t, [r EXCEPT !.status = status], "nullptr")
              /\ UNCHANGED crashed
           \/ /\ Set(t, [r EXCEPT !.pc = "detect"])
              /\ KeepStates
              /\ UNCHANGED crashed
           \/ /\ Dangling(c)
              /\ Crash(t)
              /\ KeepStates
    /\ UNCHANGED <<ctxStatus, closeCount, ctxSegs, handles, calls, dec, prm, freeSkips>>

\* lines 240-297: the language code and name of the id, the result map
DetectResult(id) ==
    LET code == whisper_lang_str(id)
        name == whisper_lang_str_full(id)
    IN  [language |-> code,
         languageName |-> IF name = NoString THEN code ELSE name,
         confidence |-> <<9, 10>>]

\* lines 230-297: whisper_lang_auto_detect_with_state(ctx, state, nThreads)
\* and everything after it up to the return
NativeDetectClassify(t) ==
    /\ At(t, "nativeDetectLanguageWithState", "detect")
    /\ LET c == th[t].h
           r == [AfterRun(th[t]) EXCEPT !.ctxCalls = @ + 1]
       IN  \/ /\ \E id \in DetectIds :
                    LET q == [r EXCEPT !.status = id]
                    IN  IF id < 0
                        THEN DetectExit(t, q, "nullptr")
                        ELSE IF whisper_lang_str(id) = NoString
                        THEN DetectExit(t, q, "nullptr")
                        ELSE DetectExit(t, [q EXCEPT !.out = DetectResult(id)], "map")
              /\ UNCHANGED crashed
           \/ /\ Dangling(c)
              /\ Crash(t)
              /\ KeepStates
    /\ UNCHANGED <<ctxStatus, closeCount, ctxSegs, handles, calls, dec, prm, freeSkips>>

\* ------ jni/whisper_jni.cpp: nativeStartChunkedRealtimeTranscribeWithState
\* lines 333-356 with maxTokens assigned without the test of line 346
StartParams_CapUntested(p, x) ==
    [DefaultParams EXCEPT !.print_realtime = FALSE,
                          !.print_progress = FALSE,
                          !.print_timestamps = FALSE,
                          !.print_special = FALSE,
                          !.translate = p.translate,
                          !.n_threads = x.nThreads,
                          !.single_segment = x.singleSegment,
                          !.no_context = x.noContext,
                          !.audio_ctx = x.audioContext,
                          !.token_timestamps = TRUE,
                          !.max_tokens = p.maxTokens,
                          !.language = <<"str", IF p.lang # NoLang THEN p.lang ELSE "auto">>]
\* lines 333-356: the parameters of the streaming session
StartParams(p, x) ==
    LET a == [DefaultParams EXCEPT !.print_realtime = FALSE,
                                   !.print_progress = FALSE,
                                   !.print_timestamps = FALSE,
                                   !.print_special = FALSE,
                                   !.translate = p.translate,
                                   !.n_threads = x.nThreads,
                                   !.single_segment = x.singleSegment,
                                   !.no_context = x.noContext,
                                   !.audio_ctx = x.audioContext,
                                   !.token_timestamps = TRUE]
        b == IF p.maxTokens > 0 THEN [a EXCEPT !.max_tokens = p.maxTokens] ELSE a
    IN  IF p.lang # NoLang
        THEN [b EXCEPT !.language = <<"str", p.lang>>]
        ELSE [b EXCEPT !.language = <<"str", "auto">>]

\* lines 315-327 without the null test of line 316
NativeStartBegin_NoNullTest(t) ==
    /\ Idle(t)
    /\ \E h \in handles, p \in ParamInputs \cup {NullLangInput}, x \in StreamInputs :
          LET e == [Enter("nativeStartChunked", h) EXCEPT !.par = p, !.stream = x]
              g == [e EXCEPT !.ctxCalls = 1]
          IN  \/ /\ Set(t, Done(g, "JNI_FALSE"))
                 /\ KeepStates
              \/ /\ \E s \in StateIds : stStatus[s] = "unalloc"
                 /\ EngineNewState(FreshState, h)
                 /\ Set(t, [g EXCEPT !.st = FreshState, !.pc = "configure"])
    /\ UNCHANGED <<ctxStatus, closeCount, ctxSegs, handles, crashed, dec, prm, freeSkips>>
\* lines 315-327: null test, whisper_init_state(ctx)
NativeStartBegin(t) ==
    /\ Idle(t)
    /\ \E h \in handles, p \in ParamInputs \cup {NullLangInput}, x \in StreamInputs :
          LET e == [Enter("nativeStartChunked", h) EXCEPT !.par = p, !.stream = x]
              g == [e EXCEPT !.ctxCalls = 1]
          IN  IF h = NullHandle
              THEN Set(t, Done(e, "JNI_FALSE")) /\ KeepStates /\ UNCHANGED crashed
              ELSE \/ /\ Set(t, Done(g, "JNI_FALSE"))
                      /\ KeepStates /\ UNCHANGED crashed
                   \/ /\ \E s \in StateIds : stStatus[s] = "unalloc"
                      /\ EngineNewState(FreshState, h)
                      /\ Set(t, [g EXCEPT !.st = FreshState, !.pc = "configure"])
                      /\ UNCHANGED crashed
                   \/ /\ Dangling(h)
                      /\ crashed' = TRUE
                      /\ Set(t, [g EXCEPT !.pc = "init"])
                      /\ KeepStates
    /\ UNCHANGED <<ctxStatus, closeCount, ctxSegs, handles, dec, prm, freeSkips>>

\* lines 333-373 without the whisper_state_free of line 371
NativeStartFinish_KeepState(t) ==
    /\ At(t, "nativeStartChunked", "configure")
    /\ Set(t, Done([AfterRun(th[t]) EXCEPT
                       !.params = StartParams(th[t].par, th[t].stream),
                       !.langAcq = IF th[t].par.lang # NoLang THEN 1 ELSE 0],
                   "JNI_TRUE"))
    /\ UNCHANGED <<engineVars, crashed, calls, dec, prm, freeSkips>>
\* lines 333-373: the parameters, the language string, whisper_state_free(state),
\* return JNI_TRUE
NativeStartFinish(t) ==
    /\ At(t, "nativeStartChunked", "configure")
    /\ Set(t, Done([AfterRun(th[t]) EXCEPT
                       !.params = StartParams(th[t].par, th[t].stream),
                       !.langAcq = IF th[t].par.lang # NoLang THEN 1 ELSE 0],
                   "JNI_TRUE"))
    /\ EngineFreeState(th[t].st)
    /\ UNCHANGED <<ctxStatus, closeCount, ctxSegs, handles, crashed, calls, dec, prm, freeSkips>>

\* the native function has returned and the thread is free for the next call;
\* the allocator may hand the freed state's memory out again
Return(t) ==
    /\ ~crashed
    /\ th[t].pc = "done"
    /\ Set(t, IdleCall)
    /\ LET s == th[t].st
       IN  IF s # 0 /\ stStatus[s] = "freed"
           THEN /\ stStatus' = [stStatus EXCEPT ![s] = "unalloc"]
                /\ stParent' = [stParent EXCEPT ![s] = 0]
                /\ stFreeCount' = [stFreeCount EXCEPT ![s] = 0]
           ELSE KeepStates
    /\ UNCHANGED <<ctxStatus, closeCount, ctxSegs, handles, crashed, calls, dec, prm, freeSkips>>

Next ==
    \/ initContext
    \/ nativeInitContext
    \/ freeContext
    \/ nativeFreeContext
    \/ \E t \in Threads :
          \/ FullTranscribeBegin(t)
          \/ FullTranscribeRun(t)
          \/ FullTranscribeRead(t)
          \/ NativeTranscribeBegin(t)
          \/ NativeTranscribeRun(t)
          \/ NativeTranscribeRead(t)
          \/ NativeDetectBegin(t)
          \/ NativeDetectMel(t)
          \/ NativeDetectClassify(t)
          \/ NativeStartBegin(t)
          \/ NativeStartFinish(t)
          \/ Return(t)

Spec == Init /\ [][Next]_vars

\* ------------------------------------------------- the WAV decoder on its own
\* lines 60-76 of fullTranscribe applied to one buffer: every header prefix,
\* and the header followed by every payload of up to MaxPayload sample bytes
ByteSamples == {-128, -1, 0, 1, 127}
RECURSIVE Payloads(_)
Payloads(n) ==
    IF n = 0 THEN {<<>>}
    ELSE LET shorter == Payloads(n - 1)
         IN  shorter \cup {Append(q, b) : q \in {x \in shorter : Len(x) = n - 1},
                                           b \in ByteSamples}
WavBuffers ==
    {SubSeq(Header, 1, n) : n \in 0..(WavHeaderLen - 1)} \cup
    {Header \o q : q \in Payloads(MaxPayload)}

InitDecode ==
    /\ ctxStatus = [c \in CtxIds |-> "unalloc"]
    /\ closeCount = [c \in CtxIds |-> 0]
    /\ ctxSegs = [c \in CtxIds |-> <<>>]
    /\ handles = {}
    /\ stStatus = [s \in StateIds |-> "unalloc"]
    /\ stParent = [s \in StateIds |-> 0]
    /\ stFreeCount = [s \in StateIds |-> 0]
    /\ th = [t \in Threads |-> IdleCall]
    /\ crashed = FALSE
    /\ calls = 0
    /\ dec \in {[in |-> b, out |-> <<>>, res |-> "none"] : b \in WavBuffers}
    /\ prm = NoPrm
    /\ freeSkips = 0

\* lines 64-68: the buffer is shorter than the header
DecodeReject ==
    /\ dec.res = "none"
    /\ WavTooShort(Len(dec.in))
    /\ dec' = [dec EXCEPT !.res = "{\"error\":\"Invalid WAV\"}"]
    /\ UNCHANGED <<engineVars, th, crashed, calls, prm, freeSkips>>

\* lines 70-76: the samples
DecodeSamples ==
    /\ dec.res = "none"
    /\ ~WavTooShort(Len(dec.in))
    /\ dec' = [dec EXCEPT !.out = WavDecode(dec.in), !.res = "samples"]
    /\ UNCHANGED <<engineVars, th, crashed, calls, prm, freeSkips>>

NextDecode ==
    \/ DecodeReject
    \/ DecodeSamples

SpecDecode == InitDecode /\ [][NextDecode]_vars

\* ------------------------------------------ the parameter set-up on its own
\* The lines that fill whisper_full_params at the three call sites, applied to
\* the same arguments: every language kind, both translate values, maxTokens
\* around zero and at the ends of jint.
LangInputs == {NoLang, "auto", "en", "de", "xx"}
TokenInputs == ((-MaxTokenArg)..MaxTokenArg) \cup {-2147483647 - 1, 2147483647}
ParamCases ==
    [lang : LangInputs, translate : BOOLEAN, maxTokens : TokenInputs,
     suppressBlank : {FALSE}, suppressNst : {TRUE}]

InitParams ==
    /\ ctxStatus = [c \in CtxIds |-> "unalloc"]
    /\ closeCount = [c \in CtxIds |-> 0]
    /\ ctxSegs = [c \in CtxIds |-> <<>>]
    /\ handles = {}
    /\ stStatus = [s \in StateIds |-> "unalloc"]
    /\ stParent = [s \in StateIds |-> 0]
    /\ stFreeCount = [s \in StateIds |-> 0]
    /\ th = [t \in Threads |-> IdleCall]
    /\ crashed = FALSE
    /\ calls = 0
    /\ dec = NoDec
    /\ prm \in {[NoPrm EXCEPT !.in = p, !.x = x] : p \in ParamCases, x \in StreamInputs}
    /\ freeSkips = 0

\* whisper-jni.cpp lines 80-97; languageStr is never null at this site
\* (GetStringUTFChars of line 56 comes first)
ParamsFullTranscribe ==
    /\ prm.full = NoParams
    /\ prm.in.lang # NoLang
    /\ prm' = [prm EXCEPT !.full = FullTranscribeParams(prm.in)]
    /\ UNCHANGED <<engineVars, th, crashed, calls, dec, freeSkips>>

\* whisper_jni.cpp lines 78-100
ParamsNativeTranscribe ==
    /\ prm.native = NoParams
    /\ prm' = [prm EXCEPT !.native = NativeTranscribeParams(prm.in)]
    /\ UNCHANGED <<engineVars, th, crashed, calls, dec, freeSkips>>

\* whisper_jni.cpp lines 333-356
ParamsStart ==
    /\ prm.start = NoParams
    /\ prm' = [prm EXCEPT !.start = StartParams(prm.in, prm.x)]
    /\ UNCHANGED <<engineVars, th, crashed, calls, dec, freeSkips>>

NextParams ==
    \/ ParamsFullTranscribe
    \/ ParamsNativeTranscribe
    \/ ParamsStart

SpecParams == InitParams /\ [][NextParams]_vars

\* ================================================================== claims
InvalidWav == "{\"error\":\"Invalid WAV\"}"
\* what each function returns for a handle it rejects
InvalidHandleResults == {"{}", "nullptr", "JNI_FALSE"}
DetectOp == "nativeDetectLanguageWithState"
StartOp == "nativeStartChunked"
LiveStatesOf(c) == {s \in StateIds : stStatus[s] = "live" /\ stParent[s] = c}

\* C1: a transcribe, detectLanguage or startStreamingSession call made on a
\* handle after freeContext was called on it never passes the freed context
\* to the engine (the call is refused before any engine call).
C1_FreedHandleRejected ==
    \A t \in Threads : th[t].stale => th[t].ctxCalls = 0

\* C2: whisper_free is invoked at most once on every context initContext
\* returned.
C2_CloseAtMostOnce ==
    \A c \in CtxIds : closeCount[c] <= 1

\* C3: no step in which the engine closes a context (whisper_free is invoked
\* on it) starts from a state in which an engine state created from that
\* context is still live.
C3_NoCloseWithLiveState ==
    [][\A c \in CtxIds :
          closeCount'[c] > closeCount[c] => LiveStatesOf(c) = {}]_vars

\* C4: the state a detectLanguage call created is freed at most once, and once
\* the call has returned (on success, after a spectral-conversion failure,
\* after a classification failure or for an id without a language code) it
\* has been freed exactly once and is not live.
C4_DetectFreesStateOnce ==
    \A t \in Threads :
        (th[t].op = DetectOp /\ th[t].st # 0) =>
            /\ stFreeCount[th[t].st] <= 1
            /\ th[t].pc = "done" =>
                  /\ stStatus[th[t].st] = "freed"
                  /\ stFreeCount[th[t].st] = 1
\* a detectLanguage call that created a state and returned on the
\* unknown-language exit
C4_Witness ==
    \E t \in Threads :
        /\ th[t].op = DetectOp /\ th[t].pc = "done" /\ th[t].st # 0
        /\ th[t].res = "nullptr" /\ th[t].status = 7
        /\ stFreeCount[th[t].st] = 1

\* C5: when startStreamingSession has returned success, the engine state it
\* created from the context is live (held for the session).
C5_StartHoldsLiveState ==
    \A t \in Threads :
        (th[t].op = StartOp /\ th[t].pc = "done" /\ th[t].res = "JNI_TRUE") =>
            /\ th[t].st # 0
            /\ stStatus[th[t].st] = "live"
            /\ stParent[th[t].st] = th[t].h

\* C7: a fullTranscribe request on a non-null handle whose buffer is shorter
\* than 44 bytes never stands before the engine run: it has returned the
\* Invalid WAV error without any engine call.
C7_ShortWavRejected ==
    \A t \in Threads :
        (th[t].op = "fullTranscribe" /\ th[t].h # NullHandle /\ th[t].runs = 0
           /\ Len(th[t].audio) < 44) =>
            /\ th[t].pc = "done"
            /\ th[t].res = InvalidWav
            /\ th[t].ctxCalls = 0
C7_Witness ==
    \E t \in Threads :
        /\ th[t].op = "fullTranscribe" /\ th[t].h # NullHandle
        /\ Len(th[t].audio) = 43
        /\ th[t].pc = "done" /\ th[t].res = InvalidWav /\ th[t].runs = 0

\* C8: a buffer of length L >= 44 with (L-44) even decodes to exactly (L-44)/2
\* samples; sample i is v/32768 with v the signed 16-bit little-endian value
\* of the bytes at offsets 44+2i (low, taken unsigned) and 44+2i+1 (high,
\* signed), and lies in [-1, 1].
C8_DecodeSamples ==
    LET L == Len(dec.in)
    IN  (dec.res # "none" /\ L >= 44 /\ (L - 44) % 2 = 0) =>
            /\ dec.res = "samples"
            /\ 2 * Len(dec.out) = L - 44
            /\ \A i \in 0..(Len(dec.out) - 1) :
                  LET lo == dec.in[45 + 2 * i]
                      hi == dec.in[46 + 2 * i]
                      v == (IF lo < 0 THEN lo + 256 ELSE lo) + 256 * hi
                      x == dec.out[i + 1]
                  IN  /\ x.den > 0
                      /\ x.num * 32768 = v * x.den
                      /\ -x.den <= x.num /\ x.num <= x.den
\* one sample decoded from the bytes 00 80: the extreme -32768/32768 = -1
C8_Witness ==
    /\ dec.res = "samples"
    /\ Len(dec.in) = 46
    /\ dec.in[45] = 0 /\ dec.in[46] = -128
    /\ dec.out = <<[num |-> -32768, den |-> 32768]>>

\* a transcribe request on a non-null handle, not yet run, whose decoded
\* audio has no sample
ZeroSampleRequest(r) ==
    /\ r.h # NullHandle /\ r.runs = 0
    /\ \/ r.op = "fullTranscribe" /\ Len(r.audio) >= 44 /\ (Len(r.audio) - 44) \div 2 = 0
       \/ r.op = "nativeTranscribe" /\ r.audio = <<>>
\* a fullTranscribe request on a non-null handle, not yet run, whose buffer
\* has an odd number of bytes after the 44-byte header
OddPayloadRequest(r) ==
    /\ r.h # NullHandle /\ r.runs = 0 /\ r.op = "fullTranscribe"
    /\ Len(r.audio) >= 44 /\ (Len(r.audio) - 44) % 2 = 1

\* C9: no step of a transcribe request whose decoded audio has zero samples
\* (a WAV buffer of 44 bytes, an empty float array) invokes the engine, and the
\* step in which such a request returns returns EmptyAudio.
C9_ZeroSamplesRejected ==
    [][\A t \in Threads :
          /\ (ZeroSampleRequest(th[t]) /\ th[t].pc # "done") =>
                /\ th'[t].runs = th[t].runs
                /\ th'[t].ctxCalls = th[t].ctxCalls
                /\ th'[t].pc = "done" => th'[t].res = "EmptyAudio"
          /\ (th[t].pc = "idle" /\ ZeroSampleRequest(th'[t]) /\ th'[t].pc = "done") =>
                th'[t].res = "EmptyAudio"]_vars

\* C10: no step of a fullTranscribe request whose buffer has an odd payload
\* length after the header invokes the engine, and the step in which such a
\* request returns returns the Invalid WAV error.
C10_OddPayloadRejected ==
    [][\A t \in Threads :
          /\ (OddPayloadRequest(th[t]) /\ th[t].pc # "done") =>
                /\ th'[t].runs = th[t].runs
                /\ th'[t].ctxCalls = th[t].ctxCalls
                /\ th'[t].pc = "done" => th'[t].res = InvalidWav
          /\ (th[t].pc = "idle" /\ OddPayloadRequest(th'[t]) /\ th'[t].pc = "done") =>
                th'[t].res = InvalidWav]_vars

TranscribeOps == {"fullTranscribe", "nativeTranscribe"}
TransformationFailed == "{\"error\":\"Transformation failed\"}"

\* C11: a transcribe call invokes the engine run at most once, and a call
\* whose engine run returned a nonzero status has returned a failure (the
\* Transformation failed error, or null) that carries no text and no
\* segments, after exactly one engine run.
C11_FailedRunNoPartialNoRetry ==
    \A t \in Threads :
        th[t].op \in TranscribeOps =>
            /\ th[t].runs <= 1
            /\ th[t].status # 0 =>
                  /\ th[t].pc = "done"
                  /\ th[t].res \in {TransformationFailed, "nullptr"}
                  /\ th[t].out = <<>>
                  /\ th[t].runs = 1
\* a fullTranscribe call whose engine run returned -2
C11_Witness ==
    \E t \in Threads :
        /\ th[t].op = "fullTranscribe" /\ th[t].pc = "done"
        /\ th[t].status = -2 /\ th[t].runs = 1
        /\ th[t].res = TransformationFailed /\ th[t].out = <<>>

\* the number of characters in the texts of the first n segments
RECURSIVE TextChars(_, _)
TextChars(segs, n) ==
    IF n = 0 THEN 0 ELSE TextChars(segs, n - 1) + Len(segs[n].text)

\* C12: in the step in which a transcribe call reads the result of its
\* successful engine run from a context that is not freed, the value it
\* returns holds as many segments as the context reports, the i-th with the
\* text, t0 and t1 of the context's i-th segment (empty texts included), and
\* the full text is the segment texts one after the other in that order.
C12_SegmentsPassedThrough ==
    [][\A t \in Threads :
          (th[t].op \in TranscribeOps /\ th[t].pc = "read" /\ th'[t].pc = "done"
             /\ ~Dangling(th[t].h)) =>
              LET segs == ctxSegs[th[t].h]
                  o == th'[t].out
                  txt == IF th[t].op = "fullTranscribe" THEN o.text ELSE o.result
              IN  /\ th'[t].res \in {"json", "map"}
                  /\ Len(o.segments) = Len(segs)
                  /\ \A i \in 1..Len(segs) :
                        /\ o.segments[i].text = segs[i].text
                        /\ o.segments[i].t0 = segs[i].t0
                        /\ o.segments[i].t1 = segs[i].t1
                        /\ SubSeq(txt, TextChars(segs, i - 1) + 1, TextChars(segs, i))
                              = segs[i].text
                  /\ Len(txt) = TextChars(segs, Len(segs))]_vars
\* a fullTranscribe call that returned three segments, the second of empty text
C12_Witness ==
    \E t \in Threads :
        /\ th[t].op = "fullTranscribe" /\ th[t].pc = "done" /\ th[t].res = "json"
        /\ Len(th[t].out.segments) = 3
        /\ th[t].out.segments[2] = [text |-> <<>>, t0 |-> 80, t1 |-> 80]
        /\ th[t].out.text = <<"j", "a", "!">>

\* a call in progress on a non-null handle whose language tag is neither
\* absent, nor "auto", nor in the engine's language table
UnsupportedTagRequest(r) ==
    /\ r.op \in TranscribeOps \cup {StartOp}
    /\ r.h # NullHandle /\ r.pc \notin {"idle", "done"}
    /\ r.par.lang \notin {NoLang, "auto"}
    /\ \A i \in 1..Len(LangTable) : LangTable[i] # r.par.lang

\* C13: no step of a transcribe or startStreamingSession call whose language
\* tag is unsupported runs the engine or returns a success: the call fails
\* (with UnsupportedLanguage) before the engine run.
C13_UnsupportedLanguageRejected ==
    [][\A t \in Threads :
          UnsupportedTagRequest(th[t]) =>
              /\ th'[t].runs = th[t].runs
              /\ th'[t].res \notin {"json", "map", "JNI_TRUE"}]_vars

\* a call that has returned on a failure path: a null handle, a WAV buffer
\* refused before the engine run, a state that could not be allocated, a
\* nonzero status of the engine run or of the spectral conversion, a negative
\* language id
FailedCall(r) ==
    /\ r.pc = "done"
    /\ \/ r.h = NullHandle
       \/ r.op = "fullTranscribe" /\ r.runs = 0
       \/ r.op \in TranscribeOps /\ r.status # 0
       \/ r.op \in {DetectOp, StartOp} /\ r.st = 0
       \/ r.op = DetectOp /\ r.status < 0
\* the values that say "failure" to the host: a document with an error
\* member, or the null / false of a binding whose success is a map / true
ErrorValues == {InvalidWav, TransformationFailed, "nullptr", "JNI_FALSE"}

\* C14: every call that returned on a failure path returned a value that
\* carries an error and no result; none returned an empty document.
C14_FailureIsStructuredError ==
    \A t \in Threads :
        FailedCall(th[t]) => (th[t].res \in ErrorValues /\ th[t].out = <<>>)

\* C15: in a detectLanguage call that created its state, the state belongs to
\* this call alone and to the call's context; while the process runs the call
\* stands before the classification only after the spectral conversion
\* returned 0, with two engine calls made; a call that
\* returned after two engine calls (conversion failed) returned null with no
\* language, and a call that returned after the third (classification)
\* returned null with no language when the id is negative or has no language
\* code, and the map with the id's language code otherwise.
C15_DetectStepsInOrder ==
    \A t \in Threads :
        (th[t].op = DetectOp /\ th[t].st # 0) =>
            /\ stParent[th[t].st] = th[t].h
            /\ \A u \in Threads \ {t} : th[u].st # th[t].st
            /\ (th[t].pc = "detect" /\ ~crashed) =>
                  (th[t].status = 0 /\ th[t].ctxCalls = 2)
            /\ (th[t].pc = "done" /\ th[t].ctxCalls = 2) =>
                  (th[t].status # 0 /\ th[t].res = "nullptr" /\ th[t].out = <<>>)
            /\ (th[t].pc = "done" /\ th[t].ctxCalls = 3) =>
                  IF th[t].status < 0 \/ th[t].status >= Len(LangTable)
                  THEN th[t].res = "nullptr" /\ th[t].out = <<>>
                  ELSE /\ th[t].res = "map"
                       /\ th[t].out.language = LangTable[th[t].status + 1]
            /\ th[t].pc = "done" => th[t].ctxCalls \in {2, 3}
\* a detectLanguage call whose spectral conversion returned -2
C15_Witness ==
    \E t \in Threads :
        /\ th[t].op = DetectOp /\ th[t].pc = "done" /\ th[t].st # 0
        /\ th[t].ctxCalls = 2 /\ th[t].status = -2
        /\ th[t].res = "nullptr" /\ th[t].out = <<>>

\* the parameter sets built so far from the arguments prm.in
BuiltParams == {q \in {prm.full, prm.native, prm.start} : q # NoParams}

\* C16: at each of the three sites a maxTokens argument <= 0 leaves
\* max_tokens at the engine's default (0, no cap) and an argument > 0 sets
\* max_tokens to the argument; so the sites agree.
C16_MaxTokensAtEverySite ==
    /\ \A q \in BuiltParams :
          q.max_tokens = IF prm.in.maxTokens <= 0 THEN DefaultParams.max_tokens
                         ELSE prm.in.maxTokens
    /\ \A q \in BuiltParams, r \in BuiltParams : q.max_tokens = r.max_tokens
\* all three sites have built their parameters from maxTokens = -1
C16_Witness ==
    /\ prm.in.maxTokens = -1
    /\ prm.full # NoParams /\ prm.native # NoParams /\ prm.start # NoParams
    /\ prm.full.max_tokens = 0 /\ prm.native.max_tokens = 0
    /\ prm.start.max_tokens = 0

\* C17: in both transcribe bindings the language "auto" leaves the engine
\* without a forced language (the parameter is "auto" or null, which make the
\* engine detect), and a tag of the engine's table is the parameter, unchanged.
C17_LanguagePassedThrough ==
    \A q \in {prm.full, prm.native} \ {NoParams} :
        /\ prm.in.lang = "auto" => q.language \in {<<"str", "auto">>, <<"null">>}
        /\ (\E i \in 1..Len(LangTable) : LangTable[i] = prm.in.lang) =>
              q.language = <<"str", prm.in.lang>>

C19_BuffersReleasedOnce ==
    \A t \in Threads :
        /\ th[t].audioRel <= th[t].audioAcq
        /\ th[t].langRel <= th[t].langAcq
        /\ th[t].pc = "done" =>
              /\ th[t].audioRel = th[t].audioAcq
              /\ th[t].langRel = th[t].langAcq

\* C20: while a transcribe call stands between its engine run and its reading
\* of the segments from the context, no step is an engine run of another
\* transcribe call on the same context.
C20_NoRunBeforeOwnRead ==
    [][\A t \in Threads, u \in Threads :
          (t # u /\ th[t].op \in TranscribeOps /\ th[t].pc = "read"
             /\ th[u].op \in TranscribeOps /\ th[u].h = th[t].h) =>
              th'[u].runs = th[u].runs]_vars

\* the contexts the engine has opened so far
OpenedContexts == {c \in CtxIds : ctxStatus[c] # "unalloc"}

\* C21: the non-null handles initContext has returned are exactly the
\* contexts the engine opened (a failed load returns 0 and nothing else does);
\* a transcribe, detectLanguage or startStreamingSession call on handle 0 has
\* returned its invalid-handle value with no engine call, no engine run and no
\* state; and as long as every initContext has failed, whatever freeContext
\* calls followed, the engine has closed nothing.
C21_NullHandleNeverReachesEngine ==
    /\ handles \ {NullHandle} = OpenedContexts
    /\ \A t \in Threads :
          (th[t].op # "none" /\ th[t].h = NullHandle) =>
              /\ th[t].pc = "done"
              /\ th[t].res \in InvalidHandleResults
              /\ th[t].ctxCalls = 0 /\ th[t].runs = 0 /\ th[t].st = 0
    /\ handles \subseteq {NullHandle} =>
          \A c \in CtxIds : closeCount[c] = 0 /\ ctxStatus[c] = "unalloc"
\* initContext failed, freeContext was then called on the handle 0 it
\* returned, and a detectLanguage call on that handle has returned null
C21_Witness ==
    /\ handles = {NullHandle}
    /\ freeSkips = 1
    /\ \A c \in CtxIds : closeCount[c] = 0
    /\ \E t \in Threads :
          /\ th[t].op = DetectOp /\ th[t].h = NullHandle
          /\ th[t].pc = "done" /\ th[t].res = "nullptr" /\ th[t].ctxCalls = 0

====
